---- MODULE Spec2Model ----
(***************************************************************************)
(* A model of "Python/File Organizer/organize.py": the download organizer. *)
(*                                                                         *)
(* File names are sequences of one-character strings, so that the name     *)
(* functions (os.path.splitext, Path.suffix, Path.stem, the regular        *)
(* expression of simplify_name, str.split) are computed character by       *)
(* character as the Python code computes them.  A path below the output    *)
(* directory is the sequence of its components; <<>> is the output         *)
(* directory itself.                                                       *)
(***************************************************************************)
EXTENDS Integers, Sequences, FiniteSets, TLC

VARIABLES
    facts,      \* per entry name: what the code computes from the name alone
    earlier,    \* the regular files below the output directory when the run starts
    host,       \* the directories around base_dir: which exist, which are readable
    base_dir,   \* base_dir of line 282, what resolve_base_dir returned
    config,     \* the configuration dictionary read by organize_downloads
    cpus,       \* multiprocessing.cpu_count()
    scenario,   \* per entry name: how the environment treats that item
    baseDir,    \* the entries of the directory the run scans: [name, is_dir]
    outDirs,    \* directories made by earlier runs and this one, as paths relative
                \* to the output directory; a path whose first component is ".."
                \* lies beside the output directory, not below it
    outFiles,   \* regular files, paths as in outDirs: path -> content, the
                \* sequence of its chunks, each the name of the item it came from
    run,        \* position of organize_downloads
    items,      \* the list comprehension of line 297 (names)
    maxWorkers, \* max_threads of line 298, the pool's size
    task,       \* per item: the position and result of its process_file call,
                \* the paths it holds open for writing and the chunks it wrote
    calls,      \* per entry name: number of process_file invocations
    mkdirs,     \* path -> number of os.mkdir calls that created it
    writes      \* <<path, item>>: item opened path for writing or moved a file there

vars == <<facts, earlier, host, base_dir, config, cpus, scenario, baseDir, outDirs, outFiles, run, items,
          maxWorkers, task, calls, mkdirs, writes>>

-----------------------------------------------------------------------------
(* Bounds of the model.                                                    *)

MaxEntries == 2     \* entries in the base directory
MaxThreads == 2     \* largest configured max_threads
MaxCpus    == 2     \* largest cpu_count()
MaxFaults  == 1     \* items whose environment misbehaves in one run
MaxNameLen == 3     \* length of the generated file names
MaxChunks  == 2     \* calls of write that put the data of one file on disk

-----------------------------------------------------------------------------
(* Characters and strings.                                                 *)

Lowers == <<"a","b","c","d","e","f","g","h","i","j","k","l","m",
            "n","o","p","q","r","s","t","u","v","w","x","y","z">>
Uppers == <<"A","B","C","D","E","F","G","H","I","J","K","L","M",
            "N","O","P","Q","R","S","T","U","V","W","X","Y","Z">>
Digits == {"0","1","2","3","4","5","6","7","8","9"}

Range(s) == {s[k] : k \in DOMAIN s}

\* str.lower() on one character, then on a string
LowerChar(c) ==
    IF c \in Range(Uppers)
    THEN Lowers[CHOOSE k \in DOMAIN Uppers : Uppers[k] = c]
    ELSE c

Lower(s) == [k \in DOMAIN s |-> LowerChar(s[k])]

\* str.replace(old, new) for one-character old and new
Replace(s, old, new) == [k \in DOMAIN s |-> IF s[k] = old THEN new ELSE s[k]]

\* str.rfind(c): the last position of c in s (1-based), 0 when absent
RFind(s, c) ==
    IF \E k \in DOMAIN s : s[k] = c
    THEN CHOOSE k \in DOMAIN s : s[k] = c /\ \A j \in DOMAIN s : s[j] = c => j <= k
    ELSE 0

\* str.find(c): the first position of c in s (1-based), 0 when absent
Find(s, c) ==
    IF \E k \in DOMAIN s : s[k] = c
    THEN CHOOSE k \in DOMAIN s : s[k] = c /\ \A j \in DOMAIN s : s[j] = c => k <= j
    ELSE 0

\* pat occurs in s as a substring
Contains(s, pat) ==
    \E k \in 0..(Len(s) - Len(pat)) : SubSeq(s, k + 1, k + Len(pat)) = pat

\* os.path.splitext(name)[0]: cut at the last dot unless only dots precede it
SplitextRoot(name) ==
    LET dot == RFind(name, ".")
    IN  IF dot > 0 /\ \E k \in 1..(dot - 1) : name[k] # "."
        THEN SubSeq(name, 1, dot - 1)
        ELSE name

\* pathlib: PurePath.suffix of a final path component
Suffix(name) ==
    LET dot == RFind(name, ".")
    IN  IF 1 < dot /\ dot < Len(name)
        THEN SubSeq(name, dot, Len(name))
        ELSE <<>>

\* pathlib: PurePath.stem of a final path component
Stem(name) ==
    LET dot == RFind(name, ".")
    IN  IF 1 < dot /\ dot < Len(name)
        THEN SubSeq(name, 1, dot - 1)
        ELSE name

-----------------------------------------------------------------------------
\* simplify_name: the regular expression
\*     ([a-zA-Z0-9]+)[-_]?([0-9]+(?:\.[0-9]+)*)?[-_]?.*
\* matched at the start of the base name.  Every part after group 1 is
\* optional and greedy, so the match never backtracks into group 1.

\* first position at or after p that does not hold a character of class
RECURSIVE RunEnd(_, _, _)
RunEnd(s, p, class) ==
    IF p <= Len(s) /\ s[p] \in class THEN RunEnd(s, p + 1, class) ELSE p

AlnumChars == Range(Lowers) \cup Range(Uppers) \cup Digits

\* end (exclusive) of the repeated dotted digit runs starting at p
RECURSIVE DottedEnd(_, _)
DottedEnd(s, p) ==
    IF p + 1 <= Len(s) /\ s[p] = "." /\ s[p + 1] \in Digits
    THEN DottedEnd(s, RunEnd(s, p + 1, Digits))
    ELSE p

\* the match with group 2 reduced to [0-9]+, without the dotted repetition
NameMatchPlainVersion(base_name) ==
    LET libEnd == RunEnd(base_name, 1, AlnumChars)
        verAt  == IF libEnd <= Len(base_name) /\ base_name[libEnd] \in {"-", "_"}
                  THEN libEnd + 1 ELSE libEnd
        digEnd == RunEnd(base_name, verAt, Digits)
    IN  [matched |-> libEnd > 1,
         library |-> SubSeq(base_name, 1, libEnd - 1),
         version |-> SubSeq(base_name, verAt, digEnd - 1)]

\* the two groups of the match on base_name; matched = FALSE when re.match
\* returns None
NameMatch(base_name) ==
    LET libEnd == RunEnd(base_name, 1, AlnumChars)
        verAt  == IF libEnd <= Len(base_name) /\ base_name[libEnd] \in {"-", "_"}
                  THEN libEnd + 1 ELSE libEnd
        digEnd == RunEnd(base_name, verAt, Digits)
        verEnd == IF digEnd > verAt THEN DottedEnd(base_name, digEnd) ELSE verAt
    IN  [matched |-> libEnd > 1,
         library |-> SubSeq(base_name, 1, libEnd - 1),
         version |-> SubSeq(base_name, verAt, verEnd - 1)]

simplify_name(file_name) ==
    LET base_name == Replace(SplitextRoot(file_name), " ", "_")
        m == NameMatch(base_name)
    IN  IF m.matched
        THEN IF m.version # <<>> THEN m.library \o <<"-">> \o m.version
             ELSE m.library
        ELSE base_name

\* folder_name.split("-")[0]
SplitDashFirst(s) ==
    LET d == Find(s, "-") IN IF d = 0 THEN s ELSE SubSeq(s, 1, d - 1)

Dot    == <<".">>
DotDot == <<".", ".">>

\* path / part: pathlib drops an empty part and a "." part; ".." is kept as
\* a component, which the file system reads as the parent directory
Join(path, part) == IF part \in {<<>>, Dot} THEN path ELSE Append(path, part)

group_folder(name) == Join(<<>>, SplitDashFirst(simplify_name(name)))

specific_folder(name) == Join(group_folder(name), simplify_name(name))

-----------------------------------------------------------------------------
(* The archive table and the file-system primitives.                       *)

Tries == 3      \* @retry(Exception, tries=3, delay=2)

ExtTar == <<".","t","a","r">>
ExtZip == <<".","z","i","p">>
Ext7z  == <<".","7","z">>
ExtRar == <<".","r","a","r">>
ExtGz  == <<".","g","z">>
ExtBz2 == <<".","b","z","2">>
ExtXz  == <<".","x","z">>

\* the keys of ARCHIVE_HANDLERS
ARCHIVE_HANDLERS == {ExtTar, ExtZip, Ext7z, ExtRar, ExtGz, ExtBz2, ExtXz}

is_supported_archive(name) == Lower(Suffix(name)) \in ARCHIVE_HANDLERS

\* hasattr(archive, 'extractall'): the container formats; gzip, bz2 and lzma
\* file objects are plain streams
HasExtractall(ext) == ext \in {ExtTar, ExtZip, Ext7z, ExtRar}

\* extractall(path=..., pwd=...) is a TypeError for TarFile and SevenZipFile,
\* whose extractall has no pwd parameter
ExtractallTakesPwd(ext) == ext \in {ExtZip, ExtRar}

\* the members a container archive of the model holds
ArchiveMembers(name) == {<<"a",".","t","x","t">>}

\* the file names extract_file writes below extract_to on success
ExtractedNames(name) ==
    IF HasExtractall(Lower(Suffix(name))) THEN ArchiveMembers(name)
    ELSE {Stem(name)}

\* the paths of path's chain of ancestors, path included, output root excluded
Ancestors(path) == {SubSeq(path, 1, k) : k \in 1..Len(path)}

\* path is a directory: the output directory, a directory made below or
\* beside it, or a path ending in "..", the parent of a directory
IsDirectory(dirs, path) ==
    \/ path = <<>>
    \/ path \in dirs
    \/ path[Len(path)] = DotDot

\* Path.mkdir(parents=True, exist_ok=False): an existing path is an error
PathMkdirNoExistOk(dirs, files, path) ==
    IF \E a \in Ancestors(path) \ {path} : a \in DOMAIN files
    THEN [err |-> "NotADirectoryError", created |-> {}]
    ELSE IF path \in DOMAIN files
    THEN [err |-> "FileExistsError", created |-> {}]
    ELSE IF IsDirectory(dirs, path)
    THEN [err |-> "FileExistsError", created |-> {}]
    ELSE [err |-> "", created |-> {a \in Ancestors(path) : ~IsDirectory(dirs, a)}]

\* Path.mkdir(parents=True, exist_ok=True): os.mkdir creates the directory
\* (and the missing parents); FileExistsError is swallowed when the path is
\* a directory and raised when it is a file; a file in the place of a parent
\* is a NotADirectoryError
PathMkdir(dirs, files, path) ==
    IF \E a \in Ancestors(path) \ {path} : a \in DOMAIN files
    THEN [err |-> "NotADirectoryError", created |-> {}]
    ELSE IF path \in DOMAIN files
    THEN [err |-> "FileExistsError", created |-> {}]
    ELSE IF IsDirectory(dirs, path)
    THEN [err |-> "", created |-> {}]
    ELSE [err |-> "", created |-> {a \in Ancestors(path) : ~IsDirectory(dirs, a)}]

\* file_filter.search(name): the patterns of the model are ".*" and strings
\* without metacharacters, which search finds as substrings
DotStar == <<".","*">>

FilterSearch(pattern, name) ==
    IF pattern = DotStar THEN TRUE ELSE Contains(name, pattern)

\* line 297 without the is_dir test
ScanItemsWithDirs(entries, pattern) ==
    {e.name : e \in {x \in entries : FilterSearch(pattern, x.name)}}

\* line 297: the names of the non-directory entries the filter finds
ScanItems(entries, pattern) ==
    {e.name : e \in {x \in entries : ~x.is_dir /\ FilterSearch(pattern, x.name)}}

Min2(a, b) == IF a <= b THEN a ELSE b

\* line 298 without the cpu_count() term
MaxThreadsNoCpu(n, cpu, configured) == Min2(n, configured)

\* line 298: min(len(items), cpu_count(), config max_threads)
MaxThreadsOf(n, cpu, configured) == Min2(n, Min2(cpu, configured))

\* Directories outside the output tree are absolute paths whose components
\* are plain strings.  Path.home():
Home == <<"home", "user">>

\* Path.parent
Parent(path) == SubSeq(path, 1, Len(path) - 1)

\* lines 93-103: the first of parent_dir/"Downloads", parent_dir/"downloads"
\* that is a directory, else the path given; parent_dir is the parent of the
\* path given when that is a directory, else the home directory
resolve_base_dir(dirs, base_path) ==
    LET parent_dir == IF Parent(base_path) \in dirs THEN Parent(base_path)
                      ELSE Home
        candidates == <<Append(parent_dir, "Downloads"),
                        Append(parent_dir, "downloads")>>
    IN  IF candidates[1] \in dirs THEN candidates[1]
        ELSE IF candidates[2] \in dirs THEN candidates[2]
        ELSE base_path

\* line 292: base_dir.is_dir() and os.access(base_dir, os.R_OK)
BaseDirUsable(h, path) == path \in h.dirs /\ path \in h.readable

-----------------------------------------------------------------------------
(* The inputs of the model.                                                *)

\* the configured base_dir and the host of the runs that vary the items
D_Inbox == <<"data", "inbox">>

PlainHost == [dirs |-> {<<"data">>, Home, D_Inbox},
              readable |-> {<<"data">>, Home, D_Inbox}]

N_FooZip == <<"f","o","o","-","1",".","0",".","z","i","p">>
N_FooGz  == <<"f","o","o",".","g","z">>
N_Foo    == <<"f","o","o">>
N_BarTxt == <<"b","a","r",".","t","x","t">>
N_Sub    == <<"s","u","b">>

EntryPool ==
    {[name |-> N_FooZip, is_dir |-> FALSE],
     [name |-> N_FooGz,  is_dir |-> FALSE],
     [name |-> N_Foo,    is_dir |-> FALSE],
     [name |-> N_BarTxt, is_dir |-> FALSE],
     [name |-> N_Sub,    is_dir |-> TRUE]}

Filters == {DotStar, N_Foo}

NamesOf(entries) == {e.name : e \in entries}

\* how the environment may treat an entry while it is processed.
\* mkdir_denied: the os.mkdir calls of the item are refused;
\* hash_error: the archive cannot be read for hashing;
\* move_error: os.rename fails and so does the copy of shutil.move or its
\* os.unlink; move_copies: os.rename fails (base and output directory on
\* different file systems) and shutil.move copies and unlinks
ScenariosFor(e) ==
    IF e.is_dir THEN {"ok"}
    ELSE IF is_supported_archive(e.name)
    THEN {"ok", "mkdir_denied", "extract_fail_twice", "extract_fail_always",
          "hash_error"}
    ELSE {"ok", "mkdir_denied", "move_error", "move_copies"}

N_SDL2    == <<"S","D","L","2","-","2",".","3","0",".","1",".","t","a","r",".","g","z">>
N_Readme  == <<"r","e","a","d","m","e",".","t","x","t">>
N_MyFile  == <<"m","y"," ","f","i","l","e"," ","v","2",".","z","i","p">>
N_DashFoo == <<"-","f","o","o",".","t","x","t">>

NameAlphabet == {"a", "1", "-", "_", ".", " "}

\* every name over the alphabet up to the length bound; "." and ".." are
\* never names of directory entries
GeneratedNames ==
    UNION {[1..k -> NameAlphabet] : k \in 1..MaxNameLen} \ {<<".">>, <<".", ".">>}

NamePool == GeneratedNames \cup {N_SDL2, N_Readme, N_MyFile, N_DashFoo}

\* what the code computes from an item's name alone: folder_name of line
\* 251 and file_extension of line 195 (the suffix tested at line 170)
NameFacts(name) ==
    [folder_name    |-> simplify_name(name),
     file_extension |-> Lower(Suffix(name))]

\* NameFacts of an entry of the scanned directory; the functions are pure,
\* so the state holds their values instead of every step computing them anew
FactsOf(name) == facts[name]

\* the underlying handler's k-th attempt on the archive fails
HandlerFails(name, scn, k) ==
    \/ HasExtractall(FactsOf(name).file_extension)
          /\ ~ExtractallTakesPwd(FactsOf(name).file_extension)
    \/ scn = "extract_fail_always"
    \/ scn = "extract_fail_twice" /\ k <= 2

NewTask ==
    [pc |-> "unscanned", group_folder |-> <<>>, specific_folder |-> <<>>,
     outcome |-> "none", error |-> "", attempts |-> 0,
     extracted |-> FALSE, extract_errors |-> 0, checksums |-> FALSE,
     targets |-> {}, written |-> 0, raised_at |-> ""]

\* the data of a file goes to disk in MaxChunks calls of write, each at the
\* offset its descriptor has reached; the content of a file is the sequence
\* of its chunks, each named by the item whose data it holds
Whole(i) == [k \in 1..MaxChunks |-> i]

\* a chunk no descriptor wrote: the gap a write beyond the end leaves
Hole == <<>>

\* write of chunk k of the data of item i into a file of this content
WriteChunk(content, k, i) ==
    [j \in 1..(IF k > Len(content) THEN k ELSE Len(content)) |->
        IF j = k THEN i
        ELSE IF j <= Len(content) THEN content[j] ELSE Hole]

\* the files after item i wrote chunk k through the descriptors it holds
WriteAll(files, paths, k, i) ==
    [p \in DOMAIN files |->
        IF p \in paths THEN WriteChunk(files[p], k, i) ELSE files[p]]

\* open(path, 'wb') on each path: the file is created, or an existing file
\* is cut to length 0; descriptors other items hold on it stay on the file
OpenAll(files, paths) == [p \in paths |-> <<>>] @@ files

Init ==
    /\ baseDir \in {S \in SUBSET EntryPool : Cardinality(S) <= MaxEntries}
    /\ facts = [n \in NamesOf(baseDir) |-> NameFacts(n)]
    /\ scenario \in {f \in [NamesOf(baseDir) -> {"ok", "mkdir_denied",
                          "extract_fail_twice", "extract_fail_always",
                          "hash_error", "move_error", "move_copies"}] :
                       /\ \A e \in baseDir : f[e.name] \in ScenariosFor(e)
                       /\ Cardinality({n \in DOMAIN f : f[n] # "ok"}) <= MaxFaults}
    /\ host = PlainHost
    /\ base_dir = <<>>
    /\ earlier = <<>>
    /\ config \in [base_dir : {D_Inbox}, simulate : BOOLEAN, integrity : BOOLEAN,
                   max_threads : 0..MaxThreads, file_filter : {DotStar}]
    /\ cpus = MaxCpus
    /\ outDirs = {}
    /\ outFiles = <<>>
    /\ run = "start"
    /\ items = {}
    /\ maxWorkers = 0
    /\ task = [n \in NamesOf(baseDir) |-> NewTask]
    /\ calls = [n \in NamesOf(baseDir) |-> 0]
    /\ mkdirs = <<>>
    /\ writes = {}

-----------------------------------------------------------------------------
(* organize_downloads and the worker pool.                                 *)

\* lines 282-300: resolve and test the base directory (an unusable one is
\* logged and the function returns), scan, size the pool, construct it.
\* ThreadPoolExecutor raises ValueError when max_workers <= 0; the exception
\* leaves organize_downloads.
OrganizeStart ==
    /\ run = "start"
    /\ LET resolved == resolve_base_dir(host.dirs, config.base_dir)
           found == ScanItems(baseDir, config.file_filter)
           n == MaxThreadsOf(Cardinality(found), cpus, config.max_threads)
       IN  /\ base_dir' = resolved
           /\ IF ~BaseDirUsable(host, resolved)
              THEN /\ run' = "aborted"
                   /\ UNCHANGED <<items, maxWorkers, task>>
              ELSE /\ items' = found
                   /\ maxWorkers' = n
                   /\ IF n <= 0
                      THEN /\ run' = "raised"
                           /\ task' = task
                      ELSE /\ run' = "running"
                           /\ task' = [x \in DOMAIN task |->
                                         IF x \in found
                                         THEN [task[x] EXCEPT !.pc = "queued"]
                                         ELSE task[x]]
    /\ UNCHANGED <<facts, earlier, host, config, cpus, scenario, baseDir, outDirs, outFiles,
                   calls, mkdirs, writes>>

Active(t) ==
    {n \in DOMAIN t :
        t[n].pc \in {"ensure_group", "ensure_specific", "extract", "extract_copy",
                    "hash", "move", "copy", "unlink"}}

\* a pool thread takes a submitted item and calls process_file, which
\* computes its two folders (lines 251-253)
StartTask(i) ==
    /\ run = "running"
    /\ task[i].pc = "queued"
    /\ Cardinality(Active(task)) < maxWorkers
    /\ LET folder_name == FactsOf(i).folder_name
           group == Join(<<>>, SplitDashFirst(folder_name))
       IN  task' = [task EXCEPT ![i].pc = "ensure_group",
                                ![i].group_folder = group,
                                ![i].specific_folder = Join(group, folder_name)]
    /\ calls' = [calls EXCEPT ![i] = @ + 1]
    /\ UNCHANGED <<facts, earlier, host, base_dir, config, cpus, scenario,
                   baseDir, outDirs, outFiles, run,
                   items, maxWorkers, mkdirs, writes>>

\* an exception of process_file escapes it: the iteration over executor.map
\* re-raises it and cancels the futures not yet started
ProcessFileNoExcept(t, i, err) ==
    [n \in DOMAIN t |->
        IF n = i THEN [t[n] EXCEPT !.pc = "done", !.outcome = "Failed", !.error = err,
                                   !.raised_at = t[n].pc,
                                   !.targets = {}, !.written = 0]
        ELSE IF t[n].pc = "queued"
        THEN [t[n] EXCEPT !.pc = "done", !.outcome = "Cancelled"]
        ELSE t[n]]

\* a handler that logs the exception and lets the item go on to its action
ProcessFileExceptGoesOn(t, i, err) ==
    [t EXCEPT ![i].outcome = "Failed", ![i].error = err,
              ![i].raised_at = t[i].pc,
              ![i].targets = {}, ![i].written = 0,
              ![i].pc = IF @ \in {"ensure_group", "ensure_specific"}
                        THEN IF FactsOf(i).file_extension \in ARCHIVE_HANDLERS THEN "extract" ELSE "move"
                        ELSE "done"]

\* lines 270-271: the exception is logged with its traceback (the class of
\* the exception and where it was raised) and process_file returns; the
\* files the item had open were closed on the way
ProcessFileExcept(t, i, err) ==
    [t EXCEPT ![i].pc = "done", ![i].outcome = "Failed", ![i].error = err,
              ![i].raised_at = t[i].pc,
              ![i].targets = {}, ![i].written = 0]

\* the classes of the exception of a refused or failing system call: EACCES
\* and EPERM give PermissionError, other error numbers plain OSError
IOErrors == {"PermissionError", "OSError"}

\* a simulate branch that reports the other action than the one executed
AfterEnsureSwapped(t, i) ==
    IF FactsOf(i).file_extension \in ARCHIVE_HANDLERS
    THEN IF config.simulate
         THEN [t EXCEPT ![i].pc = "done", ![i].outcome = "SimulatedMove"]
         ELSE [t EXCEPT ![i].pc = "extract"]
    ELSE IF config.simulate
         THEN [t EXCEPT ![i].pc = "done", ![i].outcome = "SimulatedExtract"]
         ELSE [t EXCEPT ![i].pc = "move"]

\* the next position once both directories exist (lines 256-259, 264-268)
AfterEnsure(t, i) ==
    IF FactsOf(i).file_extension \in ARCHIVE_HANDLERS
    THEN IF config.simulate
         THEN [t EXCEPT ![i].pc = "done", ![i].outcome = "SimulatedExtract"]
         ELSE [t EXCEPT ![i].pc = "extract"]
    ELSE IF config.simulate
         THEN [t EXCEPT ![i].pc = "done", ![i].outcome = "SimulatedMove"]
         ELSE [t EXCEPT ![i].pc = "move"]

\* the count of creations after os.mkdir calls created these paths
Created(count, paths) ==
    [p \in DOMAIN count \cup paths |->
        (IF p \in DOMAIN count THEN count[p] ELSE 0) + (IF p \in paths THEN 1 ELSE 0)]

\* one Path.mkdir(parents=True, exist_ok=True) call of
\* ensure_directories_exist by item i: the results it may have.  Where the
\* os.mkdir calls of the item are refused, Path.mkdir asks is_dir(): for a
\* path that is a directory the OSError is swallowed when only write
\* permission on the parent is missing, and is_dir() raises PermissionError
\* itself when search permission is missing; for any other path the error
\* is raised and nothing is created.  For a path that cannot be made anyway
\* the operating system decides which of the two errors it reports.
MkdirCall(i, path) ==
    LET r == PathMkdir(outDirs, outFiles, path)
        denied == [err |-> "PermissionError", created |-> {}]
    IN  IF scenario[i] # "mkdir_denied" THEN {r}
        ELSE IF r.err # "" THEN {r, denied}
        ELSE IF r.created = {} THEN {r, denied}
        ELSE {denied}

\* line 181: group_folder.mkdir(parents=True, exist_ok=True)
EnsureGroup(i) ==
    /\ task[i].pc = "ensure_group"
    /\ \E r \in MkdirCall(i, task[i].group_folder) :
           /\ outDirs' = outDirs \cup r.created
           /\ mkdirs' = Created(mkdirs, r.created)
           /\ task' = IF r.err # "" THEN ProcessFileExcept(task, i, r.err)
                      ELSE [task EXCEPT ![i].pc = "ensure_specific"]
    /\ UNCHANGED <<facts, earlier, host, base_dir, config, cpus, scenario,
                   baseDir, outFiles, run, items,
                   maxWorkers, calls, writes>>

\* line 182: specific_folder.mkdir(parents=True, exist_ok=True), then the
\* branch of lines 256-268
EnsureSpecific(i) ==
    /\ task[i].pc = "ensure_specific"
    /\ \E r \in MkdirCall(i, task[i].specific_folder) :
           /\ outDirs' = outDirs \cup r.created
           /\ mkdirs' = Created(mkdirs, r.created)
           /\ task' = IF r.err # "" THEN ProcessFileExcept(task, i, r.err)
                      ELSE AfterEnsure(task, i)
    /\ UNCHANGED <<facts, earlier, host, base_dir, config, cpus, scenario,
                   baseDir, outFiles, run, items,
                   maxWorkers, calls, writes>>

\* lines 201-212, the body of extract_file: does a failure of the handler
\* leave the function as an exception?  The except clause logs it and
\* returns, so no exception reaches the retry decorator.
ExtractFileRaises(failed) == FALSE

\* the paths extract_file writes for archive i: the members of an archive
\* with extractall below extract_to (line 205), else extract_to / stem
\* (line 207)
ExtractTargets(i, extract_to) ==
    {Join(extract_to, m) :
        m \in IF HasExtractall(FactsOf(i).file_extension)
              THEN ArchiveMembers(i) ELSE {Stem(i)}}

\* lines 210-212 and 260-263: extract_file is left, its files closed.  The
\* retry decorator of line 185 calls it again only when the call raised and
\* fewer than Tries calls were made; its last exception goes to process_file.
AfterExtract(t, i, failed) ==
    LET t1 == [t EXCEPT ![i].extracted = @ \/ ~failed,
                        ![i].extract_errors = IF failed THEN @ + 1 ELSE @,
                        ![i].targets = {}, ![i].written = 0]
    IN  IF ExtractFileRaises(failed)
        THEN IF t[i].attempts < Tries THEN [t1 EXCEPT ![i].pc = "extract"]
             ELSE ProcessFileExcept(t1, i, "ExtractError")
        ELSE IF config.integrity
        THEN [t1 EXCEPT ![i].pc = "hash"]
        ELSE [t1 EXCEPT ![i].pc = "done", ![i].outcome = "Ok"]

\* line 260, lines 202-208: one call of extract_file up to the opening of
\* its output.  The handler opens the archive (a broken archive may fail
\* here, before any output); then the output is opened for writing, which
\* creates it or cuts it to length 0.
ExtractAttempt(i) ==
    /\ task[i].pc = "extract"
    /\ \E atOpen \in IF scenario[i] \in {"extract_fail_twice", "extract_fail_always"}
                     THEN BOOLEAN ELSE {FALSE} :
       LET k == task[i].attempts + 1
           ext == FactsOf(i).file_extension
           targets == ExtractTargets(i, task[i].specific_folder)
           \* line 205: extractall(path=..., pwd=...) on a TarFile or
           \* SevenZipFile is a TypeError before anything is written
           typeError == HasExtractall(ext) /\ ~ExtractallTakesPwd(ext)
           \* line 208: open(output_path, 'wb') on a directory is an
           \* IsADirectoryError
           blocked == \E p \in targets : IsDirectory(outDirs, p)
           t0 == [task EXCEPT ![i].attempts = k]
       IN  IF typeError \/ blocked \/ (atOpen /\ HandlerFails(i, scenario[i], k))
           THEN /\ task' = AfterExtract(t0, i, TRUE)
                /\ UNCHANGED <<outFiles, writes>>
           ELSE /\ outFiles' = OpenAll(outFiles, targets)
                /\ writes' = writes \cup {<<p, i>> : p \in targets}
                /\ task' = [t0 EXCEPT ![i].pc = "extract_copy",
                                      ![i].targets = targets,
                                      ![i].written = 0]
    /\ UNCHANGED <<facts, earlier, host, base_dir, config, cpus, scenario,
                   baseDir, outDirs, run, items,
                   maxWorkers, calls, mkdirs>>

\* line 209 (and the same loop inside extractall): one round of
\* shutil.copyfileobj, a read from the archive and a write to the output.
\* A broken archive fails at a read, leaving what was written so far, or at
\* the check of the end of its data, after everything was written.
ExtractWrite(i) ==
    /\ task[i].pc = "extract_copy"
    /\ \E broken \in IF HandlerFails(i, scenario[i], task[i].attempts)
                     THEN BOOLEAN ELSE {FALSE} :
       LET n == task[i].written + 1
       IN  IF broken
           THEN /\ task' = AfterExtract(task, i, TRUE)
                /\ outFiles' = outFiles
           ELSE /\ outFiles' = WriteAll(outFiles, task[i].targets, n, i)
                /\ task' = IF n < MaxChunks
                           THEN [task EXCEPT ![i].written = n]
                           ELSE AfterExtract(task, i,
                                    HandlerFails(i, scenario[i], task[i].attempts))
    /\ UNCHANGED <<facts, earlier, host, base_dir, config, cpus, scenario,
                   baseDir, outDirs, run, items,
                   maxWorkers, calls, mkdirs, writes>>

\* lines 261-263: integrity_check opens and reads the archive at item.path
IntegrityCheck(i) ==
    /\ task[i].pc = "hash"
    /\ \E err \in IF i \notin NamesOf(baseDir) THEN {"FileNotFoundError"}
                  ELSE IF scenario[i] = "hash_error" THEN IOErrors ELSE {""} :
          task' = IF err # ""
                  THEN ProcessFileExcept(task, i, err)
                  ELSE [task EXCEPT ![i].pc = "done", ![i].outcome = "Ok",
                                    ![i].checksums = TRUE]
    /\ UNCHANGED <<facts, earlier, host, base_dir, config, cpus, scenario,
                   baseDir, outDirs, outFiles, run,
                   items, maxWorkers, calls, mkdirs, writes>>

\* shutil.move(src, dst): an existing directory dst receives the file under
\* its own name, refusing an existing entry there; otherwise os.rename puts
\* the file at dst, replacing a file already there
MoveTarget(dirs, files, dst, name) ==
    IF dst \in dirs
    THEN IF Append(dst, name) \in dirs \cup DOMAIN files
         THEN [err |-> "shutil.Error", path |-> dst]
         ELSE [err |-> "", path |-> Append(dst, name)]
    ELSE [err |-> "", path |-> dst]

\* os.rename put another file at these paths: an item that holds one of
\* them open now writes to a file that has no name any more
Orphan(t, paths) ==
    [n \in DOMAIN t |-> [t[n] EXCEPT !.targets = @ \ paths]]

\* the file systems make os.rename of item i fail
RenameFails(i) == scenario[i] \in {"move_error", "move_copies"}

\* lines 265-269: destination = specific_folder / item.name; shutil.move up
\* to its first change.  os.rename puts the file at the destination in one
\* call.  When os.rename raises OSError, shutil.move copies instead: copy2
\* opens the destination for writing, which may be refused.
MoveFile(i) ==
    /\ task[i].pc = "move"
    /\ \E refused \in IF scenario[i] = "move_error" THEN {""} \cup IOErrors ELSE {""} :
       LET r == MoveTarget(outDirs, outFiles,
                           Join(task[i].specific_folder, i), i)
       IN  IF r.err # ""
           THEN /\ task' = ProcessFileExcept(task, i, r.err)
                /\ UNCHANGED <<baseDir, outFiles, writes>>
           ELSE IF RenameFails(i)
           THEN IF refused # ""
                THEN /\ task' = ProcessFileExcept(task, i, refused)
                     /\ UNCHANGED <<baseDir, outFiles, writes>>
                ELSE /\ task' = [task EXCEPT ![i].pc = "copy",
                                            ![i].targets = {r.path},
                                            ![i].written = 0]
                     /\ baseDir' = baseDir
                     /\ outFiles' = OpenAll(outFiles, {r.path})
                     /\ writes' = writes \cup {<<r.path, i>>}
           ELSE /\ task' = [Orphan(task, {r.path}) EXCEPT
                               ![i].pc = "done", ![i].outcome = "Ok"]
                /\ baseDir' = {e \in baseDir : e.name # i}
                /\ outFiles' = (r.path :> Whole(i)) @@ outFiles
                /\ writes' = writes \cup {<<r.path, i>>}
    /\ UNCHANGED <<facts, earlier, host, base_dir, config, cpus, scenario,
                   outDirs, run, items, maxWorkers,
                   calls, mkdirs>>

\* line 269, shutil.move copying: one round of the copy loop of copy2, which
\* may fail (a read or write error, an OSError) and leave what was written
\* so far
CopyWrite(i) ==
    /\ task[i].pc = "copy"
    /\ \E broken \in IF scenario[i] = "move_error" THEN BOOLEAN ELSE {FALSE} :
       LET n == task[i].written + 1
       IN  IF broken
           THEN /\ task' = ProcessFileExcept(task, i, "OSError")
                /\ outFiles' = outFiles
           ELSE /\ outFiles' = WriteAll(outFiles, task[i].targets, n, i)
                /\ task' = IF n < MaxChunks
                           THEN [task EXCEPT ![i].written = n]
                           ELSE [task EXCEPT ![i].pc = "unlink",
                                             ![i].targets = {},
                                             ![i].written = 0]
    /\ UNCHANGED <<facts, earlier, host, base_dir, config, cpus, scenario,
                   baseDir, outDirs, run, items,
                   maxWorkers, calls, mkdirs, writes>>

\* line 269, shutil.move after the copy: os.unlink(src).  Where the source
\* directory refuses it the move fails with the copy in place.
UnlinkSource(i) ==
    /\ task[i].pc = "unlink"
    /\ \E err \in IF scenario[i] = "move_error" THEN IOErrors ELSE {""} :
          IF err # ""
          THEN /\ task' = ProcessFileExcept(task, i, err)
               /\ baseDir' = baseDir
          ELSE /\ task' = [task EXCEPT ![i].pc = "done", ![i].outcome = "Ok"]
               /\ baseDir' = {e \in baseDir : e.name # i}
    /\ UNCHANGED <<facts, earlier, host, base_dir, config, cpus, scenario,
                   outDirs, outFiles, run, items, maxWorkers,
                   calls, mkdirs, writes>>

\* lines 300-307: the with block ends when every submitted item has returned
\* and list() has consumed every result
OrganizeReturn ==
    /\ run = "running"
    /\ \A i \in items : task[i].pc = "done"
    /\ run' = IF \E i \in items : task[i].outcome = "Cancelled"
              THEN "raised" ELSE "returned"
    /\ UNCHANGED <<facts, earlier, host, base_dir, config, cpus, scenario,
                   baseDir, outDirs, outFiles, items,
                   maxWorkers, task, calls, mkdirs, writes>>

Next ==
    \/ OrganizeStart
    \/ \E i \in items : StartTask(i)
    \/ \E i \in items : EnsureGroup(i)
    \/ \E i \in items : EnsureSpecific(i)
    \/ \E i \in items : ExtractAttempt(i)
    \/ \E i \in items : ExtractWrite(i)
    \/ \E i \in items : IntegrityCheck(i)
    \/ \E i \in items : MoveFile(i)
    \/ \E i \in items : CopyWrite(i)
    \/ \E i \in items : UnlinkSource(i)
    \/ OrganizeReturn

Spec == Init /\ [][Next]_vars

-----------------------------------------------------------------------------
(* Runs that vary the filter, the configured max_threads and the number of *)
(* CPUs: the scan and the size of the pool.                                *)

InitPool ==
    /\ baseDir \in {S \in SUBSET EntryPool : Cardinality(S) <= MaxEntries}
    /\ facts = [n \in NamesOf(baseDir) |-> NameFacts(n)]
    /\ scenario \in {f \in [NamesOf(baseDir) -> {"ok", "move_copies"}] :
                        /\ \A e \in baseDir : f[e.name] \in ScenariosFor(e)
                        /\ Cardinality({n \in DOMAIN f : f[n] # "ok"}) <= MaxFaults}
    /\ host = PlainHost
    /\ base_dir = <<>>
    /\ earlier = <<>>
    /\ config \in [base_dir : {D_Inbox}, simulate : {FALSE}, integrity : {TRUE},
                   max_threads : 0..MaxThreads, file_filter : Filters]
    /\ cpus \in 1..MaxCpus
    /\ outDirs = {}
    /\ outFiles = <<>>
    /\ run = "start"
    /\ items = {}
    /\ maxWorkers = 0
    /\ task = [n \in NamesOf(baseDir) |-> NewTask]
    /\ calls = [n \in NamesOf(baseDir) |-> 0]
    /\ mkdirs = <<>>
    /\ writes = {}

SpecPool == InitPool /\ [][Next]_vars

-----------------------------------------------------------------------------
(* Runs that vary the directories around the configured base_dir.          *)

D_Downloads      == <<"data", "Downloads">>
D_LowerDownloads == <<"data", "downloads">>
D_HomeDownloads  == <<"home", "user", "Downloads">>
D_Gone           == <<"gone", "inbox">>     \* its parent is no directory

HostDirPool == {D_Inbox, D_Downloads, D_LowerDownloads, D_HomeDownloads}

BasePaths == {D_Inbox, D_LowerDownloads, D_Gone}

Hosts ==
    {[dirs |-> {<<"data">>, Home} \cup S, readable |-> ({<<"data">>, Home} \cup S) \ U] :
        S \in SUBSET HostDirPool, U \in {{}} \cup {{d} : d \in HostDirPool}}

InitBase ==
    /\ host \in Hosts
    /\ base_dir = <<>>
    /\ earlier = <<>>
    /\ config \in [base_dir : BasePaths, simulate : {FALSE}, integrity : BOOLEAN,
                   max_threads : {MaxThreads}, file_filter : {DotStar}]
    /\ cpus = MaxCpus
    /\ baseDir \in {S \in SUBSET EntryPool : Cardinality(S) <= 1}
    /\ scenario \in {f \in [NamesOf(baseDir) -> {"ok", "move_copies"}] :
                        \A e \in baseDir : f[e.name] \in ScenariosFor(e)}
    /\ outDirs = {}
    /\ outFiles = <<>>
    /\ run = "start"
    /\ items = {}
    /\ maxWorkers = 0
    /\ task = [n \in NamesOf(baseDir) |-> NewTask]
    /\ facts = [n \in NamesOf(baseDir) |-> NameFacts(n)]
    /\ calls = [n \in NamesOf(baseDir) |-> 0]
    /\ mkdirs = <<>>
    /\ writes = {}

SpecBase == InitBase /\ [][Next]_vars

-----------------------------------------------------------------------------
(* Runs of one file each, over many file names: the name functions.        *)

InitNames ==
    /\ host = PlainHost
    /\ base_dir = <<>>
    /\ earlier = <<>>
    /\ config = [base_dir |-> D_Inbox, simulate |-> FALSE, integrity |-> TRUE,
                 max_threads |-> 1, file_filter |-> DotStar]
    /\ cpus = 1
    /\ baseDir \in {{[name |-> n, is_dir |-> FALSE]} : n \in NamePool}
    /\ scenario \in {f \in [NamesOf(baseDir) -> {"ok", "move_copies"}] :
                        \A e \in baseDir : f[e.name] \in ScenariosFor(e)}
    /\ outDirs = {}
    /\ outFiles = <<>>
    /\ run = "start"
    /\ items = {}
    /\ maxWorkers = 0
    /\ task = [n \in NamesOf(baseDir) |-> NewTask]
    /\ facts = [n \in NamesOf(baseDir) |-> NameFacts(n)]
    /\ calls = [n \in NamesOf(baseDir) |-> 0]
    /\ mkdirs = <<>>
    /\ writes = {}

SpecNames == InitNames /\ [][Next]_vars

-----------------------------------------------------------------------------
(* Runs into an output directory that an earlier run or the user has       *)
(* already filled.                                                         *)

P_Bar    == <<<<"b","a","r">>>>
P_BarBar == <<<<"b","a","r">>, <<"b","a","r">>>>
P_BarTxt == <<<<"b","a","r">>, <<"b","a","r">>, N_BarTxt>>
P_Foo    == <<N_Foo>>
P_FooFoo == <<N_Foo, N_Foo>>

\* output trees found at the start: empty; a regular file where the group
\* directory of bar.txt goes; a regular file where the specific directory of
\* foo and foo.gz goes; bar.txt as an earlier run moved it
Earlier == <<"earlier">>

EarlierTrees ==
    { [dirs |-> {}, files |-> <<>>],
      [dirs |-> {}, files |-> (P_Bar :> Whole(Earlier))],
      [dirs |-> {P_Foo}, files |-> (P_FooFoo :> Whole(Earlier))],
      [dirs |-> {P_Bar, P_BarBar}, files |-> (P_BarTxt :> Whole(Earlier))] }

InitRerun ==
    /\ host = PlainHost
    /\ base_dir = <<>>
    /\ config \in [base_dir : {D_Inbox}, simulate : {FALSE}, integrity : BOOLEAN,
                   max_threads : {MaxThreads}, file_filter : {DotStar}]
    /\ cpus = MaxCpus
    /\ baseDir \in {S \in SUBSET EntryPool : Cardinality(S) <= MaxEntries}
    /\ scenario \in {f \in [NamesOf(baseDir) -> {"ok", "mkdir_denied", "move_copies"}] :
                        /\ \A e \in baseDir : f[e.name] \in ScenariosFor(e)
                        /\ Cardinality({n \in DOMAIN f : f[n] # "ok"}) <= MaxFaults}
    /\ \E tree \in EarlierTrees :
        /\ outDirs = tree.dirs
        /\ outFiles = tree.files
        /\ earlier = tree.files
    /\ run = "start"
    /\ items = {}
    /\ maxWorkers = 0
    /\ task = [n \in NamesOf(baseDir) |-> NewTask]
    /\ facts = [n \in NamesOf(baseDir) |-> NameFacts(n)]
    /\ calls = [n \in NamesOf(baseDir) |-> 0]
    /\ mkdirs = <<>>
    /\ writes = {}

SpecRerun == InitRerun /\ [][Next]_vars

-----------------------------------------------------------------------------
(* Properties.                                                             *)

PoolNames == NamesOf(EntryPool)

\* the functions of the names, tabulated over the entry pool
PoolArchives == {n \in PoolNames : is_supported_archive(n)}
PoolGroup == [n \in PoolNames |-> group_folder(n)]
PoolSpecific == [n \in PoolNames |-> specific_folder(n)]
PoolFound == [f \in Filters |-> {n \in PoolNames : FilterSearch(f, n)}]
PoolDirs == {e.name : e \in {x \in EntryPool : x.is_dir}}

IsArchive(i) == i \in PoolArchives
Done(i) == task[i].pc = "done"
InBase(i) == i \in NamesOf(baseDir)

\* C1: in simulate mode the file system stays as it was: no directory below
\* the output directory, no file there, every entry still in the base
\* directory.
C1_SimulateLeavesFilesystemUntouched ==
    config.simulate =>
        /\ outDirs = {}
        /\ DOMAIN outFiles = {}
        /\ NamesOf(baseDir) = DOMAIN task

\* C2: after an execute-mode run in which every item succeeded, no processed
\* item is left in the base directory (archives deleted, plain files moved).
C2_BaseEmptiedOnSuccess ==
    ( /\ run = "returned"
      /\ ~config.simulate
      /\ \A i \in items : task[i].outcome = "Ok"
      /\ \A i \in items : IsArchive(i) => task[i].extracted )
    => \A i \in items : ~InBase(i)

\* extract_file has returned to process_file for item i
ExtractReturned(i) ==
    task[i].attempts > 0 /\ task[i].pc \notin {"extract", "extract_copy"}

\* C3: an extraction failing on attempts 1 and 2 and succeeding on attempt 3
\* is attempted exactly 3 times and ends extracted, with a success outcome.
C3_ThirdAttemptSucceeds ==
    \A i \in items :
        (scenario[i] = "extract_fail_twice" /\ ExtractReturned(i)) =>
            /\ task[i].attempts = 3
            /\ task[i].extracted
            /\ Done(i) => task[i].outcome = "Ok"

\* C4: an extraction failing on every attempt ends the item as Failed, and
\* the archive is still in the base directory.
C4_ExhaustedRetriesFailItem ==
    \A i \in items :
        (scenario[i] = "extract_fail_always" /\ task[i].attempts > 0 /\ Done(i)) =>
            /\ task[i].outcome = "Failed"
            /\ InBase(i)

\* process_file has computed the folders of item i
Started(i) == task[i].pc \notin {"unscanned", "queued"}

\* the exception that ended item i was raised by ensure_directories_exist
RaisedInEnsure(i) == task[i].raised_at \in {"ensure_group", "ensure_specific"}

\* the outcome of item i when none of its own steps fails
SuccessOutcome(i) ==
    IF config.simulate
    THEN IF IsArchive(i) THEN "SimulatedExtract" ELSE "SimulatedMove"
    ELSE "Ok"

\* the positions at which the environment of item i makes a step fail
FaultPositions(i) ==
    IF scenario[i] = "mkdir_denied" THEN {"ensure_group", "ensure_specific"}
    ELSE IF scenario[i] = "hash_error" THEN {"hash"}
    ELSE IF scenario[i] = "move_error" THEN {"move", "copy", "unlink"}
    ELSE {}

\* C5: failure isolation.  An item ends Failed only by an exception one of
\* its own steps raised where its own environment fails, and process_file
\* caught it; every other item ends with its success outcome, whatever
\* failed for the others and however the workers interleave.  No item is
\* dropped, and once the pool exists the run returns normally with every
\* dispatched item processed.
C5_FailureIsolation ==
    /\ \A i \in items :
          Done(i) =>
             /\ task[i].outcome \in {"Failed", SuccessOutcome(i)}
             /\ task[i].outcome = "Failed" <=> task[i].error # ""
             /\ task[i].outcome = "Failed" => task[i].raised_at \in FaultPositions(i)
             /\ (scenario[i] = "hash_error" /\ config.integrity /\ ~config.simulate)
                    => task[i].outcome = "Failed"
             /\ (scenario[i] = "move_error" /\ ~config.simulate)
                    => task[i].outcome = "Failed"
    /\ \A i \in items : task[i].outcome # "Cancelled"
    /\ run = "raised" => maxWorkers <= 0
    /\ run = "returned" => \A i \in items : Done(i) /\ calls[i] = 1

C5_Witness ==
    /\ run = "returned"
    /\ \E i, j \in items :
          /\ i # j
          /\ task[i].outcome = "Failed"
          /\ task[j].outcome = "Ok"

\* item i is past ensure_directories_exist without an error
Ensured(i) ==
    \/ task[i].pc \in {"extract", "extract_copy", "hash", "move", "copy", "unlink"}
    \/ Done(i) /\ ~RaisedInEnsure(i)

\* C6: directory creation is idempotent and race-free: no caller ever sees
\* an "already exists" error, the only invocation that fails is one whose
\* os.mkdir was refused, every directory is created by one os.mkdir call
\* only, and an item has both of its directories once
\* ensure_directories_exist returned.
C6_EnsureDirectoriesRaceFree ==
    /\ \A i \in items : task[i].error # "FileExistsError"
    /\ \A i \in items :
          RaisedInEnsure(i) =>
              scenario[i] = "mkdir_denied" /\ task[i].error = "PermissionError"
    /\ \A p \in DOMAIN mkdirs : mkdirs[p] = 1
    /\ outDirs = DOMAIN mkdirs
    /\ \A i \in items :
          /\ Ensured(i) => PoolGroup[i] \in outDirs /\ PoolSpecific[i] \in outDirs
          /\ task[i].pc = "ensure_specific" => PoolGroup[i] \in outDirs
          /\ (scenario[i] # "mkdir_denied" /\ Started(i)
                 /\ task[i].pc \notin {"ensure_group", "ensure_specific"}) => Ensured(i)

C6_Witness ==
    \E i, j \in items :
        /\ i # j
        /\ PoolGroup[i] = PoolGroup[j]
        /\ PoolSpecific[i] = PoolSpecific[j]
        /\ Ensured(i) /\ Ensured(j)
        /\ Done(i) /\ Done(j)
        /\ PoolGroup[i] \in DOMAIN mkdirs

\* C7: no two distinct items of a run write the same file path of the
\* output tree.
C7_NoSharedOutputPath ==
    \A w, v \in writes : w[1] = v[1] => w[2] = v[2]

\* C8: the run always completes: organize_downloads never ends by an
\* exception, and it returns only when every dispatched item has an outcome.
C8_RunAlwaysCompletes ==
    /\ run # "raised"
    /\ run = "returned" => \A i \in items : Done(i) /\ task[i].outcome # "none"

\* C9: the pool is bounded: its size is min(number of items, CPU count,
\* configured max_threads), and never more items than that are in
\* process_file at once.
C9_PoolBounded ==
    run # "start" =>
        /\ maxWorkers <= Cardinality(items)
        /\ maxWorkers <= cpus
        /\ maxWorkers <= config.max_threads
        /\ maxWorkers \in {Cardinality(items), cpus, config.max_threads}
        /\ Cardinality(Active(task)) <= maxWorkers

C9_Witness ==
    /\ run = "running"
    /\ Cardinality(Active(task)) = maxWorkers
    /\ \E i \in items : task[i].pc = "queued"

IsDirName(n) == n \in PoolDirs

Found(n) == n \in PoolFound[config.file_filter]

\* C10: each entry is processed at most once, a directory or an entry the
\* filter does not find is never processed, and when the run returns every
\* non-directory entry the filter finds was processed exactly once.
C10_EachItemOnce ==
    /\ \A n \in DOMAIN calls : calls[n] <= 1
    /\ \A n \in DOMAIN calls :
          (IsDirName(n) \/ ~Found(n)) => calls[n] = 0
    /\ run = "returned" =>
          \A n \in DOMAIN calls :
              (~IsDirName(n) /\ Found(n)) => calls[n] = 1

C10_Witness ==
    /\ run = "returned"
    /\ \E n, m \in DOMAIN calls :
          /\ calls[n] = 1
          /\ calls[m] = 0
          /\ IsDirName(m)
          /\ Found(m)

FilesystemAsAtStart ==
    /\ outDirs = {}
    /\ DOMAIN outFiles = {}
    /\ NamesOf(baseDir) = DOMAIN task

\* C11: when the configured base directory does not exist or is unreadable
\* the run aborts at once: no item is processed and the file system stays
\* as it was.
C11_UnusableBaseAborts ==
    ~BaseDirUsable(host, config.base_dir) =>
        /\ run \notin {"running", "returned"}
        /\ items = {}
        /\ \A n \in DOMAIN calls : calls[n] = 0
        /\ FilesystemAsAtStart

\* C17: when the configured base directory exists and is readable, the
\* directory the run scans is that directory and no other.
C17_ScansConfiguredBase ==
    (run \notin {"start", "aborted"} /\ BaseDirUsable(host, config.base_dir)) =>
        base_dir = config.base_dir

\* C12: a hashing failure is advisory: an archive whose extraction succeeded
\* and whose digests could not be computed is not reported as failed.
C12_HashFailureAdvisory ==
    \A i \in items :
        (config.integrity /\ scenario[i] = "hash_error" /\ task[i].extracted
            /\ Done(i)) => task[i].outcome # "Failed"

\* the grouping key of a name: the two groups of the match, or the whole
\* normalized base name and no version when nothing matches
GroupingKey(file_name) ==
    LET base_name == Replace(SplitextRoot(file_name), " ", "_")
        m == NameMatch(base_name)
    IN  IF m.matched THEN [library |-> m.library, version |-> m.version]
        ELSE [library |-> base_name, version |-> <<>>]

\* C13: every item is placed under groupDir = outputDir/library and
\* specificDir = groupDir/library or groupDir/library-version, a child of
\* groupDir, also when the name has no leading alphanumeric run.
C13_PlacementFollowsKey ==
    \A i \in items :
        Started(i) =>
            LET k == GroupingKey(i)
                leaf == IF k.version = <<>> THEN k.library
                        ELSE k.library \o <<"-">> \o k.version
            IN  /\ task[i].group_folder = <<k.library>>
                /\ task[i].specific_folder = <<k.library, leaf>>
                /\ Parent(task[i].specific_folder) = task[i].group_folder

L_SDL2   == <<"S","D","L","2">>
L_SDL2V  == <<"S","D","L","2","-","2",".","3","0",".","1">>
L_Readme == <<"r","e","a","d","m","e">>
L_My     == <<"m","y">>
L_MyFile == <<"m","y","_","f","i","l","e">>

\* the folders of item i are those of library lib and folder name leaf
FoldersAre(i, lib, leaf) ==
    /\ task[i].group_folder = <<lib>>
    /\ task[i].specific_folder = <<lib, leaf>>

\* C14 as stated: the example names give library 'SDL2' with version
\* '2.30.1', library 'readme' with no version, and library 'my_file'.
C14_ExampleKeysAsStated ==
    \A i \in items :
        Started(i) =>
            /\ i = N_SDL2 => FoldersAre(i, L_SDL2, L_SDL2V)
            /\ i = N_Readme => FoldersAre(i, L_Readme, L_Readme)
            /\ i = N_MyFile => task[i].group_folder = <<L_MyFile>>

\* C14, amended: 'SDL2-2.30.1.tar.gz' gives library 'SDL2' with version
\* '2.30.1', 'readme.txt' gives library 'readme' with no version, and
\* 'my file v2.zip' gives library 'my' with no version.
C14_ExampleKeys ==
    \A i \in items :
        Started(i) =>
            /\ i = N_SDL2 => FoldersAre(i, L_SDL2, L_SDL2V)
            /\ i = N_Readme => FoldersAre(i, L_Readme, L_Readme)
            /\ i = N_MyFile => FoldersAre(i, L_My, L_My)

C14_Witness ==
    /\ run = "returned"
    /\ N_MyFile \in items
    /\ task[N_MyFile].outcome = "Ok"
    /\ task[N_MyFile].specific_folder = <<L_My, L_My>>

\* the action the plan holds for item i, from its name alone
PlannedKind(i) == IF IsArchive(i) THEN "extract" ELSE "move"

\* C15: the action kind and the specific directory that simulate mode reports
\* for an item are the kind and the directory of what execute mode performs
\* for it: both are those of the item's plan.
C15_SimulateExecuteParity ==
    \A i \in items :
        /\ task[i].outcome = "SimulatedExtract" =>
                PlannedKind(i) = "extract" /\ task[i].specific_folder = PoolSpecific[i]
        /\ task[i].outcome = "SimulatedMove" =>
                PlannedKind(i) = "move" /\ task[i].specific_folder = PoolSpecific[i]
        /\ task[i].attempts > 0 => PlannedKind(i) = "extract"
        /\ (Started(i) /\ ~InBase(i)) => PlannedKind(i) = "move"
        /\ \A w \in writes : w[2] = i => Parent(w[1]) = PoolSpecific[i]
        /\ (Done(i) /\ task[i].outcome = "Ok") =>
                IF PlannedKind(i) = "extract" THEN task[i].attempts > 0
                ELSE <<Append(PoolSpecific[i], i), i>> \in writes
        /\ (config.simulate /\ Done(i) /\ task[i].outcome # "Failed") =>
                task[i].outcome = IF PlannedKind(i) = "extract"
                                  THEN "SimulatedExtract" ELSE "SimulatedMove"

C15_Witness ==
    /\ config.simulate
    /\ run = "returned"
    /\ \E i, j \in items :
        /\ task[i].outcome = "SimulatedExtract"
        /\ task[j].outcome = "SimulatedMove"

PlacementErrors == {"PermissionError", "FileExistsError", "NotADirectoryError"}

\* C16: an item whose group or specific directory could not be created is
\* failed and logged without any extraction, move or hashing, its source
\* stays in the scanned directory, and every other item is still processed.
C16_PlacementErrorFailsItemOnly ==
    /\ \A i \in items :
        RaisedInEnsure(i) =>
            /\ task[i].pc = "done"
            /\ task[i].outcome = "Failed"
            /\ task[i].error \in PlacementErrors
            /\ task[i].attempts = 0
            /\ ~task[i].extracted
            /\ ~task[i].checksums
            /\ InBase(i)
            /\ \A w \in writes : w[2] # i
            /\ \A j \in items : task[j].outcome # "Cancelled"
            /\ run # "raised"
    /\ run = "returned" => \A j \in items : Done(j) /\ calls[j] = 1

C16_Witness ==
    /\ run = "returned"
    /\ \E i, j \in items :
        /\ task[i].raised_at = "ensure_specific"
        /\ task[i].error = "PermissionError"
        /\ InBase(i)
        /\ task[j].outcome = "Ok"

\* C18: a file that was in the output tree when the run started is still
\* there with its content after plain files have been moved.
C18_MoveKeepsExistingFiles ==
    \A p \in DOMAIN earlier :
        p \in DOMAIN outFiles /\ outFiles[p] = earlier[p]

====
